---------------------------- MODULE Spec2Model ----------------------------
(***************************************************************************)
(* Ophthalmology literature search (streamlit_app.py): the sidebar's query *)
(* builder, PubMedAPI.search_studies / fetch_article_details and the       *)
(* per-article XML parser _parse_article, as one state machine.            *)
(*                                                                         *)
(* A script run is triggered by every widget interaction.  A run that      *)
(* presses "Search Literature" with a non-empty query blocks twice on the  *)
(* network (esearch, then efetch); the model splits the run at those two   *)
(* points, where the upstream service chooses its answer.                  *)
(***************************************************************************)
EXTENDS Integers, Sequences, FiniteSets, TLC

VARIABLES
    search_type,    \* st.radio "Search Type"
    conditions,     \* st.multiselect "Select Conditions" (selection order)
    study_type,     \* st.multiselect "Study Type" (selection order)
    year_range,     \* st.slider "Publication Year": <<from, to>>
    max_results,    \* st.slider "Maximum Results"
    custom_text,    \* st.text_area "Enter Search Query"
    query_parts,    \* main's local list of clauses (<<>> when not built)
    search_query,   \* main's local search_query
    pc,             \* "idle" | "esearch" | "efetch": where the script run is
    requests,       \* the requests.get calls of the current search invocation
    search_results, \* search_studies' local: the esearch JSON (NotReceived before)
    id_list,        \* search_studies' local id_list
    root,           \* fetch_article_details' parsed document: its PubmedArticle nodes
    studies,        \* what search_studies returned to main
    errors,         \* st.error messages of the current run
    warnings,       \* st.warning messages of the current run
    uncaught        \* the exception that escaped search_studies, or NoException

vars == <<search_type, conditions, study_type, year_range, max_results,
          custom_text, query_parts, search_query, pc, requests,
          search_results, id_list, root, studies, errors, warnings, uncaught>>

widgets == <<search_type, conditions, study_type, year_range, max_results,
             custom_text>>

-----------------------------------------------------------------------------
(* Bounds of the model *)

\* how many of the offered conditions the modelled user picks from
MaxConditions == 3
\* how many of the offered study types the modelled user picks from
MaxStudyTypes == 2
\* positions of the year slider explored above its minimum
YearSteps == 0
\* longest id list of an esearch answer (beside the over-long one)
MaxIds == 2
\* most article nodes of an efetch document (beside the over-long one)
MaxArticles == 3
\* most author nodes of an article
MaxAuthors == 2

-----------------------------------------------------------------------------
(* Program constants *)

ConditionOptions ==
    <<"Diabetic Retinopathy", "Glaucoma", "Age-related Macular Degeneration",
      "Cataracts", "Dry Eye Disease", "Retinal Detachment">>

StudyTypeOptions == <<"Clinical Trial", "Review", "Case Report", "Meta-Analysis">>

YearMin == 2000
DefaultYearFrom == 2015
\* datetime.now().year on the day of the run
CurrentYear == 2026
MinResults == 5
DefaultResults == 20

DomainQualifier == "ophthalmology[MeSH Terms]"
NoTitle == "No title available"

WarnEmptyQuery == "Please enter a search query or select conditions to search."
WarnNoStudies == "No studies found matching your criteria."
ErrSearching == "Error searching PubMed"
ErrFetching == "Error fetching article details"
ErrParsing == "Error parsing article"

NoException == "none"

\* search_results before response.json() has returned
NotReceived == <<>>

-----------------------------------------------------------------------------
(* Sequences and strings *)

Min(a, b) == IF a <= b THEN a ELSE b

Range(s) == {s[i] : i \in 1..Len(s)}

\* sep.join(parts)
RECURSIVE Join(_, _)
Join(sep, parts) ==
    IF parts = <<>> THEN ""
    ELSE IF Len(parts) = 1 THEN parts[1]
    ELSE parts[1] \o sep \o Join(sep, Tail(parts))

\* [f(x) for x in s]
RECURSIVE Suffixed(_, _)
Suffixed(s, suffix) ==
    IF s = <<>> THEN <<>>
    ELSE <<s[1] \o suffix>> \o Suffixed(Tail(s), suffix)

\* s without its element x (a multiselect option removed)
RECURSIVE Without(_, _)
Without(s, x) ==
    IF s = <<>> THEN <<>>
    ELSE IF s[1] = x THEN Without(Tail(s), x)
    ELSE <<s[1]>> \o Without(Tail(s), x)

-----------------------------------------------------------------------------
(* The query builder: main, "Build search query" *)

StudyTypeClause(types) ==
    "(" \o Join(" OR ", Suffixed(types, "[Publication Type]")) \o ")"

YearClause(range) ==
    ToString(range[1]) \o ":" \o ToString(range[2]) \o "[Publication Date]"

\* mutation: the year clause is appended before the study types
BuildQueryPartsYearFirst(conds, types, range) ==
    <<"(" \o Join(" OR ", conds) \o ")", DomainQualifier>>
    \o <<YearClause(range)>>
    \o (IF types # <<>> THEN <<StudyTypeClause(types)>> ELSE <<>>)

BuildQueryParts(conds, types, range) ==
    <<"(" \o Join(" OR ", conds) \o ")", DomainQualifier>>
    \o (IF types # <<>> THEN <<StudyTypeClause(types)>> ELSE <<>>)
    \o <<YearClause(range)>>

\* the value of query_parts after the sidebar block
QueryPartsOf(type, conds, types, range) ==
    IF type = "Condition-based" /\ conds # <<>>
    THEN BuildQueryParts(conds, types, range)
    ELSE <<>>

\* the value of search_query after the sidebar block
SearchQueryOf(type, conds, types, range, text) ==
    IF type = "Condition-based"
    THEN IF conds # <<>>
         THEN Join(" AND ", BuildQueryParts(conds, types, range))
         ELSE ""
    ELSE text

-----------------------------------------------------------------------------
(* The efetch document, as _parse_article reads it *)

\* find() found no such element
MISSING == "<missing>"
\* Python's None: the .text of an element without text
NONE == "<None>"

\* elem.text; evaluated only where the code has an element
Text(elem) == elem

\* str(x) inside an f-string
Format(x) == IF x = NONE THEN "None" ELSE x

\* x or default
OrElse(x, default) == IF x = NONE \/ x = "" THEN default ELSE x

\* article.find(...).text raises AttributeError when find() returns None
ParseRaises(article) ==
    article.PMID = MISSING \/ article.ArticleTitle = MISSING

\* the "Get authors" loop
RECURSIVE AuthorEntries(_)
AuthorEntries(author_list) ==
    IF author_list = <<>> THEN <<>>
    ELSE LET author == author_list[1]
             last_name == author.LastName
             fore_name == author.ForeName
         IN (IF last_name # MISSING /\ fore_name # MISSING
             THEN <<Format(Text(last_name)) \o " " \o Format(Text(fore_name))>>
             ELSE <<>>)
            \o AuthorEntries(Tail(author_list))

\* [k.text for k in keyword_list if k.text]
RECURSIVE KeywordTexts(_)
KeywordTexts(keyword_list) ==
    IF keyword_list = <<>> THEN <<>>
    ELSE (IF keyword_list[1] # NONE /\ keyword_list[1] # ""
          THEN <<keyword_list[1]>> ELSE <<>>)
         \o KeywordTexts(Tail(keyword_list))

\* the dict _parse_article builds when nothing raises
ArticleData(article) ==
    [pmid |-> Text(article.PMID),
     title |-> OrElse(Text(article.ArticleTitle), NoTitle),
     abstract |-> IF article.AbstractText # MISSING
                  THEN OrElse(Text(article.AbstractText), "") ELSE "",
     authors |-> AuthorEntries(article.Author),
     journal |-> IF article.JournalTitle # MISSING
                 THEN Text(article.JournalTitle) ELSE "",
     publication_date |-> IF article.PubDateYear # MISSING
                          THEN Text(article.PubDateYear) ELSE "",
     keywords |-> KeywordTexts(article.Keyword)]

\* _parse_article: <<dict>>, or <<>> for the None of the except branch
ParseArticle(article) ==
    IF ParseRaises(article) THEN <<>> ELSE <<ArticleData(article)>>

\* the st.error calls of one _parse_article call
ParseErrors(article) ==
    IF ParseRaises(article) THEN <<ErrParsing>> ELSE <<>>

\* fetch_article_details' loop: "if article_data: articles.append(article_data)"
RECURSIVE CollectArticles(_)
CollectArticles(nodes) ==
    IF nodes = <<>> THEN <<>>
    ELSE ParseArticle(nodes[1]) \o CollectArticles(Tail(nodes))

RECURSIVE CollectErrors(_)
CollectErrors(nodes) ==
    IF nodes = <<>> THEN <<>>
    ELSE ParseErrors(nodes[1]) \o CollectErrors(Tail(nodes))

-----------------------------------------------------------------------------
(* The requests *)

\* mutation: the caller's max_results is ignored for the default
EsearchRequestDefaultRetmax(query, retmax) ==
    [url |-> "esearch.fcgi", db |-> "pubmed", term |-> query,
     retmax |-> DefaultResults, sort |-> "relevance", retmode |-> "json",
     outcome |-> "pending"]

EsearchRequest(query, retmax) ==
    [url |-> "esearch.fcgi", db |-> "pubmed", term |-> query, retmax |-> retmax,
     sort |-> "relevance", retmode |-> "json", outcome |-> "pending"]

EfetchRequest(ids) ==
    [url |-> "efetch.fcgi", db |-> "pubmed", id |-> Join(",", ids),
     retmode |-> "xml", outcome |-> "pending"]

\* the log with its last (pending) request answered
Answered(log, outcome) ==
    [log EXCEPT ![Len(log)] = [@ EXCEPT !.outcome = outcome]]

\* search_results['esearchresult'].get('idlist', [])
IdListOf(esearchresult) ==
    IF "idlist" \in DOMAIN esearchresult THEN esearchresult.idlist ELSE <<>>

-----------------------------------------------------------------------------
(* What the user and the upstream service may supply *)

SeqsUpTo(S, n) == UNION {[1..k -> S] : k \in 0..n}

OfferedConditions ==
    Range(SubSeq(ConditionOptions, 1, Min(MaxConditions, Len(ConditionOptions))))

OfferedStudyTypes ==
    Range(SubSeq(StudyTypeOptions, 1, Min(MaxStudyTypes, Len(StudyTypeOptions))))

YearChoices ==
    {y \in YearMin..CurrentYear :
        y <= YearMin + YearSteps \/ y = DefaultYearFrom \/ y = CurrentYear}

ResultChoices == {MinResults, DefaultResults}

QueryTexts == {"", "diabetic retinopathy AND treatment"}

PMIDs == {"101", "102"}

\* one more than the smallest "Maximum Results"
OverLimit == MinResults + 1

IdLists ==
    SeqsUpTo(PMIDs, MaxIds) \cup {[i \in 1..OverLimit |-> "101"]}

\* esearch JSON objects: without esearchresult, without idlist, with an idlist
Payloads ==
    {[header |-> "h"], [header |-> "h", esearchresult |-> [count |-> "0"]]}
    \cup {[header |-> "h", esearchresult |-> [count |-> "n", idlist |-> ids]] :
            ids \in IdLists}

FewPayloads ==
    {[header |-> "h"],
     [header |-> "h", esearchresult |-> [count |-> "n", idlist |-> <<"101">>]]}

\* a PubmedArticle node, by what _parse_article's find() calls see in it
Article(pmid, title, authors) ==
    [PMID |-> pmid, ArticleTitle |-> title, AbstractText |-> MISSING,
     Author |-> authors, JournalTitle |-> MISSING, PubDateYear |-> MISSING,
     Keyword |-> <<>>]

FullArticle ==
    [PMID |-> "102", ArticleTitle |-> "Title", AbstractText |-> "Text",
     Author |-> <<[LastName |-> "Doe", ForeName |-> "Jane"]>>,
     JournalTitle |-> "Eye", PubDateYear |-> "2020",
     Keyword |-> <<"retina", NONE, "laser">>]

PlainArticle == Article("101", "Title", <<>>)

BasicArticles ==
    {Article(p, t, <<>>) : p \in {MISSING, NONE} \cup PMIDs,
                           t \in {MISSING, NONE, "Title"}}

AuthorNodes ==
    [LastName : {MISSING, NONE, "Doe"}, ForeName : {MISSING, NONE, "Jane"}]

AuthoredArticles ==
    {Article("101", "Title", a) : a \in SeqsUpTo(AuthorNodes, MaxAuthors) \ {<<>>}}

\* efetch documents, as the sequence root.findall(".//PubmedArticle") yields
Documents ==
    SeqsUpTo(BasicArticles, MaxArticles)
    \cup {<<a>> : a \in AuthoredArticles \cup {FullArticle}}

\* documents of every length up to one past the smallest "Maximum Results"
SizedDocuments ==
    SeqsUpTo({PlainArticle, Article(MISSING, "Title", <<>>)}, OverLimit)

FewDocuments == {<<PlainArticle>>}

-----------------------------------------------------------------------------
(* Script runs *)

Init ==
    /\ search_type = "Condition-based"
    /\ conditions = <<>>
    /\ study_type = <<>>
    /\ year_range = <<DefaultYearFrom, CurrentYear>>
    /\ max_results = DefaultResults
    /\ custom_text = ""
    /\ query_parts = <<>>
    /\ search_query = ""
    /\ pc = "idle"
    /\ requests = <<>>
    /\ search_results = NotReceived
    /\ id_list = <<>>
    /\ root = <<>>
    /\ studies = <<>>
    /\ errors = <<>>
    /\ warnings = <<>>
    /\ uncaught = NoException

\* the sidebar block of a run over the new widget values
Sidebar ==
    /\ query_parts' = QueryPartsOf(search_type', conditions', study_type', year_range')
    /\ search_query' = SearchQueryOf(search_type', conditions', study_type',
                                     year_range', custom_text')

\* a run in which the button was not pressed: the page shows no result
Rerun ==
    /\ Sidebar
    /\ pc' = "idle"
    /\ requests' = <<>>
    /\ search_results' = NotReceived
    /\ id_list' = <<>>
    /\ root' = <<>>
    /\ studies' = <<>>
    /\ errors' = <<>>
    /\ warnings' = <<>>
    /\ uncaught' = NoException

\* a widget that a run does not render loses its value
SelectSearchType(t) ==
    /\ pc = "idle"
    /\ t # search_type
    /\ search_type' = t
    /\ conditions' = <<>>
    /\ study_type' = <<>>
    /\ year_range' = <<DefaultYearFrom, CurrentYear>>
    /\ custom_text' = ""
    /\ UNCHANGED max_results
    /\ Rerun

SelectCondition(c) ==
    /\ pc = "idle"
    /\ search_type = "Condition-based"
    /\ c \notin Range(conditions)
    /\ conditions' = Append(conditions, c)
    /\ UNCHANGED <<search_type, study_type, year_range, max_results, custom_text>>
    /\ Rerun

DeselectCondition(c) ==
    /\ pc = "idle"
    /\ search_type = "Condition-based"
    /\ c \in Range(conditions)
    /\ conditions' = Without(conditions, c)
    /\ UNCHANGED <<search_type, study_type, year_range, max_results, custom_text>>
    /\ Rerun

SelectStudyType(t) ==
    /\ pc = "idle"
    /\ search_type = "Condition-based"
    /\ t \notin Range(study_type)
    /\ study_type' = Append(study_type, t)
    /\ UNCHANGED <<search_type, conditions, year_range, max_results, custom_text>>
    /\ Rerun

DeselectStudyType(t) ==
    /\ pc = "idle"
    /\ search_type = "Condition-based"
    /\ t \in Range(study_type)
    /\ study_type' = Without(study_type, t)
    /\ UNCHANGED <<search_type, conditions, year_range, max_results, custom_text>>
    /\ Rerun

SetYearRange(from, to) ==
    /\ pc = "idle"
    /\ search_type = "Condition-based"
    /\ from <= to
    /\ year_range # <<from, to>>
    /\ year_range' = <<from, to>>
    /\ UNCHANGED <<search_type, conditions, study_type, max_results, custom_text>>
    /\ Rerun

SetMaxResults(n) ==
    /\ pc = "idle"
    /\ n # max_results
    /\ max_results' = n
    /\ UNCHANGED <<search_type, conditions, study_type, year_range, custom_text>>
    /\ Rerun

EditQuery(text) ==
    /\ pc = "idle"
    /\ search_type = "Custom Query"
    /\ text # custom_text
    /\ custom_text' = text
    /\ UNCHANGED <<search_type, conditions, study_type, year_range, max_results>>
    /\ Rerun

-----------------------------------------------------------------------------
(* The run of a press on "Search Literature" *)

\* search_studies returned to main: "if studies: ... else: st.warning(...)"
ReturnToMain(result, errs) ==
    /\ studies' = result
    /\ errors' = errs
    /\ warnings' = IF result = <<>> THEN <<WarnNoStudies>> ELSE <<>>
    /\ uncaught' = NoException
    /\ pc' = "idle"

\* an exception no except clause of search_studies matches ends the run
Escapes(exception) ==
    /\ uncaught' = exception
    /\ UNCHANGED <<studies, errors, warnings>>
    /\ pc' = "idle"

\* mutation: the search is attempted whatever the query
QueryGivenAlways(query) == TRUE

\* "if search_query:"
QueryGiven(query) == query # ""

\* the button's branch of main, and search_studies up to its requests.get
PressSearch ==
    /\ pc = "idle"
    /\ UNCHANGED widgets
    /\ Sidebar
    /\ search_results' = NotReceived
    /\ id_list' = <<>>
    /\ root' = <<>>
    /\ studies' = <<>>
    /\ errors' = <<>>
    /\ uncaught' = NoException
    /\ IF QueryGiven(search_query')
       THEN /\ requests' = <<EsearchRequest(search_query', max_results)>>
            /\ warnings' = <<>>
            /\ pc' = "esearch"
       ELSE /\ requests' = <<>>
            /\ warnings' = <<WarnEmptyQuery>>
            /\ pc' = "idle"

\* requests.get or raise_for_status raises a RequestException
EsearchTransportFails(outcome) ==
    /\ pc = "esearch"
    /\ requests' = Answered(requests, outcome)
    /\ ReturnToMain(<<>>, <<ErrSearching>>)
    /\ UNCHANGED <<widgets, query_parts, search_query, search_results, id_list, root>>

\* response.json() raises requests.exceptions.JSONDecodeError, which is a
\* RequestException (requests 2.27 and later)
EsearchBadJson ==
    /\ pc = "esearch"
    /\ requests' = Answered(requests, "bad_json")
    /\ ReturnToMain(<<>>, <<ErrSearching>>)
    /\ UNCHANGED <<widgets, query_parts, search_query, search_results, id_list, root>>

\* mutation: the empty id list is fetched like any other
NothingToFetchNever(ids) == FALSE

\* fetch_article_details' "if not id_list: return []"
NothingToFetch(ids) == ids = <<>>

\* the esearch JSON arrives; fetch_article_details up to its requests.get
EsearchReturns(payload) ==
    /\ pc = "esearch"
    /\ search_results' = payload
    /\ IF "esearchresult" \in DOMAIN payload
       THEN LET ids == IdListOf(payload.esearchresult)
            IN /\ id_list' = ids
               /\ IF NothingToFetch(ids)
                  THEN /\ requests' = Answered(requests, "ok")
                       /\ ReturnToMain(<<>>, <<>>)
                  ELSE /\ requests' = Append(Answered(requests, "ok"),
                                             EfetchRequest(ids))
                       /\ pc' = "efetch"
                       /\ UNCHANGED <<studies, errors, warnings, uncaught>>
       ELSE /\ requests' = Answered(requests, "ok")
            /\ ReturnToMain(<<>>, <<>>)
            /\ UNCHANGED id_list
    /\ UNCHANGED <<widgets, query_parts, search_query, root>>

\* mutation: a failed efetch request is issued again
EfetchRetried(outcome) ==
    /\ pc = "efetch"
    /\ requests' = Append(Answered(requests, outcome), EfetchRequest(id_list))
    /\ UNCHANGED <<widgets, query_parts, search_query, search_results, id_list,
                   root, pc, studies, errors, warnings, uncaught>>

EfetchTransportFails(outcome) ==
    /\ pc = "efetch"
    /\ requests' = Answered(requests, outcome)
    /\ ReturnToMain(<<>>, <<ErrFetching>>)
    /\ UNCHANGED <<widgets, query_parts, search_query, search_results, id_list, root>>

\* ET.fromstring raises ParseError, which is no RequestException
EfetchBadXml ==
    /\ pc = "efetch"
    /\ requests' = Answered(requests, "bad_xml")
    /\ Escapes("ParseError")
    /\ UNCHANGED <<widgets, query_parts, search_query, search_results, id_list, root>>

\* the efetch document arrives and is parsed article by article
EfetchReturns(nodes) ==
    /\ pc = "efetch"
    /\ requests' = Answered(requests, "ok")
    /\ root' = nodes
    /\ ReturnToMain(CollectArticles(nodes), CollectErrors(nodes))
    /\ UNCHANGED <<widgets, query_parts, search_query, search_results, id_list>>

TransportFailures == {"connection_error", "http_error"}

-----------------------------------------------------------------------------
(* Specifications *)

SidebarStep ==
    \/ \E t \in {"Condition-based", "Custom Query"} : SelectSearchType(t)
    \/ \E c \in OfferedConditions : SelectCondition(c)
    \/ \E c \in OfferedConditions : DeselectCondition(c)
    \/ \E t \in OfferedStudyTypes : SelectStudyType(t)
    \/ \E t \in OfferedStudyTypes : DeselectStudyType(t)
    \/ \E from \in YearChoices, to \in YearChoices : SetYearRange(from, to)
    \/ \E n \in ResultChoices : SetMaxResults(n)
    \/ \E text \in QueryTexts : EditQuery(text)

\* every sidebar interaction, against an upstream with few answers
Next ==
    \/ SidebarStep
    \/ PressSearch
    \/ \E o \in TransportFailures : EsearchTransportFails(o)
    \/ EsearchBadJson
    \/ \E p \in FewPayloads : EsearchReturns(p)
    \/ \E o \in TransportFailures : EfetchTransportFails(o)
    \/ EfetchBadXml
    \/ \E d \in FewDocuments : EfetchReturns(d)

Spec == Init /\ [][Next]_vars

\* free-text searches, against every esearch answer and efetch documents of
\* every length
NextSearch ==
    \/ \E t \in {"Condition-based", "Custom Query"} : SelectSearchType(t)
    \/ \E n \in ResultChoices : SetMaxResults(n)
    \/ \E text \in QueryTexts : EditQuery(text)
    \/ PressSearch
    \/ \E o \in TransportFailures : EsearchTransportFails(o)
    \/ EsearchBadJson
    \/ \E p \in Payloads : EsearchReturns(p)
    \/ \E o \in TransportFailures : EfetchTransportFails(o)
    \/ EfetchBadXml
    \/ \E d \in SizedDocuments : EfetchReturns(d)

SpecSearch == Init /\ [][NextSearch]_vars

\* free-text searches, against efetch documents of every content
NextParse ==
    \/ \E t \in {"Condition-based", "Custom Query"} : SelectSearchType(t)
    \/ \E text \in QueryTexts : EditQuery(text)
    \/ PressSearch
    \/ \E o \in TransportFailures : EsearchTransportFails(o)
    \/ EsearchBadJson
    \/ \E p \in FewPayloads : EsearchReturns(p)
    \/ \E o \in TransportFailures : EfetchTransportFails(o)
    \/ EfetchBadXml
    \/ \E d \in Documents : EfetchReturns(d)

SpecParse == Init /\ [][NextParse]_vars

-----------------------------------------------------------------------------
(* Properties of the query builder *)

\* the terms joined by " OR ", built from the last term backwards
RECURSIVE Disjunction(_)
Disjunction(terms) ==
    IF Len(terms) = 1 THEN terms[1]
    ELSE Disjunction(SubSeq(terms, 1, Len(terms) - 1)) \o " OR " \o terms[Len(terms)]

TypeTerms(types) == [i \in 1..Len(types) |-> types[i] \o "[Publication Type]"]

StructuredQuery == search_type = "Condition-based" /\ conditions # <<>>

\* C1: in Condition-based mode with at least one condition selected, the
\* query is the clauses joined by " AND " in the order conditions, domain
\* qualifier, study types (present iff any is selected), year range: 4
\* clauses with study types, 3 without.
C1_ClausesInOrder ==
    StructuredQuery =>
        LET conds == "(" \o Disjunction(conditions) \o ")"
            years == ToString(year_range[1]) \o ":" \o ToString(year_range[2])
                     \o "[Publication Date]"
        IN IF study_type # <<>>
           THEN LET types == "(" \o Disjunction(TypeTerms(study_type)) \o ")"
                IN /\ query_parts = <<conds, "ophthalmology[MeSH Terms]", types, years>>
                   /\ search_query = conds \o " AND ophthalmology[MeSH Terms] AND "
                                     \o types \o " AND " \o years
           ELSE /\ query_parts = <<conds, "ophthalmology[MeSH Terms]", years>>
                /\ search_query = conds \o " AND ophthalmology[MeSH Terms] AND " \o years

\* two conditions and two study types, picked against the order they are offered in
C1_FourClauses ==
    /\ conditions = <<"Glaucoma", "Diabetic Retinopathy">>
    /\ study_type = <<"Review", "Clinical Trial">>
    /\ year_range = <<2000, 2015>>
    /\ Len(query_parts) = 4
    /\ search_query =
         "(Glaucoma OR Diabetic Retinopathy) AND ophthalmology[MeSH Terms] AND (Review[Publication Type] OR Clinical Trial[Publication Type]) AND 2000:2015[Publication Date]"

\* C2: with no condition selected the structured query is empty whatever the
\* study types and years; a run with an empty query has issued no request,
\* and its only message is the warning asking for a query.
C2_EmptyQueryNotSearched ==
    /\ (search_type = "Condition-based" /\ conditions = <<>> => search_query = "")
    /\ (search_query = "" =>
          /\ requests = <<>>
          /\ pc = "idle"
          /\ studies = <<>>
          /\ errors = <<>>
          /\ warnings \in {<<>>, <<WarnEmptyQuery>>})

\* Search pressed with study types and years chosen but no condition
C2_WarnedInstead ==
    /\ search_type = "Condition-based"
    /\ conditions = <<>>
    /\ study_type # <<>>
    /\ year_range # <<DefaultYearFrom, CurrentYear>>
    /\ warnings = <<WarnEmptyQuery>>
    /\ requests = <<>>

-----------------------------------------------------------------------------
(* Properties of a search invocation *)

Last(log) == log[Len(log)]

\* the invocation's last request failed as a whole
BatchFailed ==
    requests # <<>> /\ Last(requests).outcome \notin {"pending", "ok"}

\* the idlist of the esearch JSON, <<>> when the path is absent
ReceivedIds ==
    IF "esearchresult" \in DOMAIN search_results
       /\ "idlist" \in DOMAIN search_results.esearchresult
    THEN search_results.esearchresult.idlist
    ELSE <<>>

\* the ids separated by commas, built from the last id backwards
RECURSIVE CommaSeparated(_)
CommaSeparated(ids) ==
    IF Len(ids) = 1 THEN ids[1]
    ELSE CommaSeparated(SubSeq(ids, 1, Len(ids) - 1)) \o "," \o ids[Len(ids)]

\* C3: every batch-level failure (connection failure, non-2xx status,
\* unparsable esearch JSON or efetch XML) ends with an empty result list
\* and one error message, and no exception escapes search_studies.
C3_FailureReportedOnce ==
    BatchFailed =>
        /\ pc = "idle"
        /\ uncaught = NoException
        /\ studies = <<>>
        /\ Len(errors) = 1

\* C8: an esearch JSON without esearchresult, without idlist or with an
\* empty idlist ends the search with an empty result, no error and no efetch
\* request; otherwise the efetch request carries exactly the idlist, in order.
C8_IdListDecidesFetch ==
    (requests # <<>> /\ requests[1].outcome = "ok") =>
        IF ReceivedIds = <<>>
        THEN /\ Len(requests) = 1
             /\ pc = "idle"
             /\ studies = <<>>
             /\ errors = <<>>
             /\ uncaught = NoException
        ELSE /\ Len(requests) = 2
             /\ requests[2].url = "efetch.fcgi"
             /\ requests[2].id = CommaSeparated(ReceivedIds)

\* an esearch answer whose esearchresult has no idlist, taken as "no results"
C8_NoIdListNoFetch ==
    /\ requests # <<>>
    /\ requests[1].outcome = "ok"
    /\ "esearchresult" \in DOMAIN search_results
    /\ "idlist" \notin DOMAIN search_results.esearchresult
    /\ Len(requests) = 1
    /\ studies = <<>>
    /\ warnings = <<WarnNoStudies>>

\* C9 as stated: whatever the upstream returns, the result list is no longer
\* than the invocation's max_results.
C9_AtMostMaxResults ==
    requests # <<>> => Len(studies) <= requests[1].retmax

\* C9 amended: the esearch request asks for at most max_results ids, and
\* the result list is no longer than the efetch document has article nodes;
\* it is within max_results whenever the document is.
C9_AtMostArticleNodes ==
    requests # <<>> =>
        /\ requests[1].retmax = max_results
        /\ Len(studies) <= Len(root)
        /\ (Len(root) <= max_results => Len(studies) <= max_results)

\* a document longer than max_results, one of its articles dropped
C9_LongDocument ==
    /\ requests # <<>>
    /\ Len(root) > max_results
    /\ Len(studies) = max_results
    /\ Len(studies) < Len(root)

\* C10: an invocation issues at most one esearch and then at most one
\* efetch request, the efetch only after the esearch succeeded with a
\* non-empty id list, never two at a time, and none after a failed one.
C10_SequentialNoRetry ==
    /\ Len(requests) <= 2
    /\ (requests # <<>> => requests[1].url = "esearch.fcgi")
    /\ (Len(requests) = 2 =>
          /\ requests[2].url = "efetch.fcgi"
          /\ ReceivedIds # <<>>)
    /\ \A i \in 1..(Len(requests) - 1) : requests[i].outcome = "ok"
    /\ (pc = "idle" => \A i \in 1..Len(requests) : requests[i].outcome # "pending")
    /\ (BatchFailed => pc = "idle")

\* the efetch request failed and the invocation ended there
C10_FailedFetchEndsSearch ==
    /\ Len(requests) = 2
    /\ requests[2].outcome = "http_error"
    /\ pc = "idle"
    /\ errors = <<ErrFetching>>

-----------------------------------------------------------------------------
(* Properties of the parsed records *)

\* the efetch document was received and parsed
FetchDone == Len(requests) = 2 /\ requests[2].outcome = "ok"

HasIdentifier(article) == article.PMID # MISSING

\* the identifier element is there and has text
Identified(article) == article.PMID \notin {MISSING, NONE}

LacksTitle(article) == article.ArticleTitle \in {MISSING, NONE}

\* the articles _parse_article returns a record for
Parsed(article) == article.PMID # MISSING /\ article.ArticleTitle # MISSING

BothNameElements(author) == author.LastName # MISSING /\ author.ForeName # MISSING

\* C4: an article without identifier element is skipped and the batch goes
\* on: the result is the records of the other articles, in document order
\* (stated for documents whose identifier elements all have text).
C4_OnlyUnidentifiedSkipped ==
    (/\ FetchDone
     /\ \E i \in 1..Len(root) : ~HasIdentifier(root[i])
     /\ \A i \in 1..Len(root) : root[i].PMID # NONE) =>
        LET remaining == SelectSeq(root, HasIdentifier)
        IN /\ Len(studies) = Len(remaining)
           /\ \A i \in 1..Len(remaining) : studies[i].pmid = remaining[i].PMID

\* C5: no record of a returned list has a null identifier.
C5_NoNullIdentifier ==
    \A i \in 1..Len(studies) : studies[i].pmid # NONE

\* C6: each article with an identifier and without a title (no title
\* element, or one without text) yields a record titled with the placeholder.
C6_PlaceholderForMissingTitle ==
    FetchDone =>
        Cardinality({i \in 1..Len(root) : Identified(root[i]) /\ LacksTitle(root[i])})
        = Cardinality({i \in 1..Len(studies) :
                          studies[i].pmid # NONE /\ studies[i].title = NoTitle})

\* C7: a record's authors are the "Last First" entries of the author nodes
\* that supply both names, in document order, and no entry renders a
\* missing name as "None".
C7_AuthorsWithBothNames ==
    FetchDone =>
        LET emitted == SelectSeq(root, Parsed)
        IN \A i \in 1..Len(studies) :
             LET nodes == SelectSeq(emitted[i].Author, BothNameElements)
                 entries == studies[i].authors
             IN /\ Len(entries) = Len(nodes)
                /\ \A j \in 1..Len(nodes) :
                     /\ entries[j] = Format(nodes[j].LastName) \o " "
                                     \o Format(nodes[j].ForeName)
                     /\ entries[j] # "None " \o Format(nodes[j].ForeName)
                     /\ entries[j] # Format(nodes[j].LastName) \o " None"

=============================================================================
